---- MODULE Spec2Model ----
(***************************************************************************)
(* The replicator of stores/replicator/replicator.go: a queue of hashes to *)
(* fetch, the set of hashes marked as fetching, three statistics counters, *)
(* a buffer of fetched logs, the goroutines calling Load/processQueue and  *)
(* the watchdog goroutine started by NewReplicator.                        *)
(*                                                                         *)
(* Every step between two acquisitions of r.lock is one action, so every   *)
(* interleaving the lock allows is an interleaving of the model.           *)
(***************************************************************************)
EXTENDS Integers, Sequences, FiniteSets, TLC

\* ---------------------------------------------------------------- bounds
NumHashes == 2
NumCallers == 1
MaxLoads == 2
MaxCids == 2
MaxConcurrency == 1

\* ------------------------------------------------------ program constants
DefaultConcurrency == 128

\* uint arithmetic wraps; the modulus only has to exceed every queue length
\* and counter of the model (TLC's integers are 32 bits wide).
UintModulus == 2 ^ 30

Hashes == 1..NumHashes
W == 0
Callers == 1..NumCallers
Threads == {W} \cup Callers

VARIABLES
    queue,                \* r.queue (its key set)
    fetching,             \* r.fetching (its key set)
    statsTasksRequested,
    statsTasksStarted,
    statsTasksProcessed,
    buffer,               \* r.buffer: the hashes whose logs are buffered
    concurrency,          \* r.concurrency
    oplog,                \* r.store.OpLog(): hashes present in the local log
    stopped,              \* the context of NewReplicator is cancelled
    stack,                \* per goroutine: its call frames, innermost last
    wdpc,                 \* position of the watchdog goroutine
    wdQLen,               \* qLen of the watchdog goroutine
    loadsLeft,            \* external Load calls still to come
    graph,                \* hash -> next pointers of the entry stored under it
    fetchCalls,           \* per hash: calls of ipfslog.NewFromEntryHash
    fetchOk,              \* per hash: calls that returned a log
    failed,               \* hashes for which a call returned an error
    delivered,            \* hashes carried by an emitted load-end event
    roots                 \* hashes passed to Load by its external callers

vars == <<queue, fetching, statsTasksRequested, statsTasksStarted,
          statsTasksProcessed, buffer, concurrency, oplog, stopped, stack,
          wdpc, wdQLen, loadsLeft, graph, fetchCalls, fetchOk, failed,
          delivered, roots>>

\* ------------------------------------------------------------- helpers
SeqToSet(s) == {s[i] : i \in 1..Len(s)}

\* Sequences of distinct hashes of length 1..MaxCids: the arguments of an
\* external Load call.
LoadInputs ==
    {s \in UNION {[1..n -> Hashes] : n \in 1..MaxCids} :
        \A i, j \in 1..Len(s) : i # j => s[i] # s[j]}

\* The entry stored under h points to the (at most two) hashes after it.
DagNext(h) ==
    IF h + 2 <= NumHashes THEN <<h + 1, h + 2>>
    ELSE IF h + 1 <= NumHashes THEN <<h + 1>>
    ELSE <<>>

\* r.statsTasksStarted - r.statsTasksProcessed, in uint arithmetic
UintSub(a, b) == (a - b) % UintModulus

tasksRunning == UintSub(statsTasksStarted, statsTasksProcessed)

\* ---------------------------------------------------------- call frames
\* known is not a variable of the code: it marks the frames of an external
\* Load call whose cids were all in the log when it was called.
LoadFrame(cids) ==
    [pc |-> "L_inLog", cids |-> cids, inLog |-> FALSE, capacity |-> 0,
     items |-> {}, nItems |-> 0, e |-> 0, hashesList |-> <<>>, b |-> <<>>,
     known |-> FALSE]

ProcessQueueFrame ==
    [pc |-> "PQ_check", cids |-> <<>>, inLog |-> FALSE, capacity |-> 0,
     items |-> {}, nItems |-> 0, e |-> 0, hashesList |-> <<>>, b |-> <<>>,
     known |-> FALSE]

Top(t) == stack[t][Len(stack[t])]

At(t, pc) == stack[t] # <<>> /\ Top(t).pc = pc

SetTop(s, f) == [s EXCEPT ![Len(s)] = f]

Pop(s) == SubSeq(s, 1, Len(s) - 1)

\* processQueue returns: its caller is the Load a processQueue frame called
\* at line 255 (Load has nothing left to do after line 72), and that frame
\* returns too when its loop over hashesList is over.
RECURSIVE Return(_)
Return(s) ==
    LET p == Pop(s) IN
    IF p = <<>> THEN p
    ELSE IF p[Len(p)].hashesList = <<>> THEN Return(p)
    ELSE p

\* ------------------------------------------------------------------ Init
Init ==
    /\ queue = {}
    /\ fetching = {}
    /\ statsTasksRequested = 0
    /\ statsTasksStarted = 0
    /\ statsTasksProcessed = 0
    /\ buffer = <<>>
    /\ \E c \in 0..MaxConcurrency :
          concurrency = IF c = 0 THEN DefaultConcurrency ELSE c
    /\ oplog = {}
    /\ stopped = FALSE
    /\ stack = [t \in Threads |-> <<>>]
    /\ wdpc = "wait"
    /\ wdQLen = 0
    /\ loadsLeft = MaxLoads
    /\ graph = [h \in Hashes |-> DagNext(h)]
    /\ fetchCalls = [h \in Hashes |-> 0]
    /\ fetchOk = [h \in Hashes |-> 0]
    /\ failed = {}
    /\ delivered = {}
    /\ roots = {}

\* ------------------------------------------------------------------ Load
\* An external caller calls Load(ctx, cids).
LoadCall(t, cids) ==
    /\ t \in DOMAIN stack \ {W}
    /\ stack[t] = <<>>
    /\ loadsLeft > 0
    /\ loadsLeft' = loadsLeft - 1
    /\ roots' = roots \cup SeqToSet(cids)
    /\ stack' = [stack EXCEPT ![t] =
           <<[LoadFrame(cids) EXCEPT !.known = SeqToSet(cids) \subseteq oplog]>>]
    /\ UNCHANGED <<queue, fetching, statsTasksRequested, statsTasksStarted,
                   statsTasksProcessed, buffer, concurrency, oplog, stopped,
                   wdpc, wdQLen, graph, fetchCalls, fetchOk, failed, delivered>>

\* Load goes on to its next cid, or calls processQueue at line 72.
LoadNext(f) ==
    IF Len(f.cids) > 1
    THEN [f EXCEPT !.pc = "L_inLog", !.cids = Tail(f.cids), !.inLog = FALSE]
    ELSE [ProcessQueueFrame EXCEPT !.known = f.known]

\* line 59: inLog is read from the store's log, outside r.lock.
LoadInLog(t) ==
    /\ At(t, "L_inLog")
    /\ LET f == Top(t) IN
       stack' = [stack EXCEPT ![t] =
                    SetTop(@, [f EXCEPT !.pc = "L_check",
                                        !.inLog = (Head(f.cids) \in oplog)])]
    /\ UNCHANGED <<queue, fetching, statsTasksRequested, statsTasksStarted,
                   statsTasksProcessed, buffer, concurrency, oplog, stopped,
                   wdpc, wdQLen, loadsLeft, graph, fetchCalls, fetchOk, failed,
                   delivered, roots>>

\* The gate without the log: a hash is skipped only when queued or fetching.
LoadSkipsNoLog(isFetching, queued, inLog) == isFetching \/ queued

\* line 65: the dedup gate of Load
LoadSkips(isFetching, queued, inLog) == isFetching \/ queued \/ inLog

\* lines 60-67: fetching and queued are read under the read lock.
LoadCheck(t) ==
    /\ At(t, "L_check")
    /\ LET f == Top(t)
           h == Head(f.cids)
       IN stack' = [stack EXCEPT ![t] =
                SetTop(@, IF LoadSkips(h \in fetching, h \in queue, f.inLog)
                          THEN LoadNext(f)
                          ELSE [f EXCEPT !.pc = "L_add"])]
    /\ UNCHANGED <<queue, fetching, statsTasksRequested, statsTasksStarted,
                   statsTasksProcessed, buffer, concurrency, oplog, stopped,
                   wdpc, wdQLen, loadsLeft, graph, fetchCalls, fetchOk, failed,
                   delivered, roots>>

\* lines 260-265, called at line 69
addToQueue(t) ==
    /\ At(t, "L_add")
    /\ LET f == Top(t)
           h == Head(f.cids)
       IN /\ statsTasksRequested' = statsTasksRequested + 1
          /\ queue' = queue \cup {h}
          /\ stack' = [stack EXCEPT ![t] = SetTop(@, LoadNext(f))]
    /\ UNCHANGED <<fetching, statsTasksStarted, statsTasksProcessed, buffer,
                   concurrency, oplog, stopped, wdpc, wdQLen, loadsLeft, graph,
                   fetchCalls, fetchOk, failed, delivered,
                   roots>>

\* ---------------------------------------------------------- processQueue
\* line 209: the back-pressure check
BackPressure(running, c) == running >= c

\* lines 209-211
processQueueCheck(t) ==
    /\ At(t, "PQ_check")
    /\ stack' = [stack EXCEPT ![t] =
                    IF BackPressure(tasksRunning, concurrency)
                    THEN Return(@)
                    ELSE SetTop(@, [Top(t) EXCEPT !.pc = "PQ_capacity"])]
    /\ UNCHANGED <<queue, fetching, statsTasksRequested, statsTasksStarted,
                   statsTasksProcessed, buffer, concurrency, oplog, stopped,
                   wdpc, wdQLen, loadsLeft, graph, fetchCalls, fetchOk, failed,
                   delivered, roots>>

\* line 214: tasksRunning() is read again, under a new read lock.
processQueueCapacity(t) ==
    /\ At(t, "PQ_capacity")
    /\ stack' = [stack EXCEPT ![t] =
                    SetTop(@, [Top(t) EXCEPT
                                  !.pc = "PQ_slice",
                                  !.capacity = UintSub(concurrency, tasksRunning)])]
    /\ UNCHANGED <<queue, fetching, statsTasksRequested, statsTasksStarted,
                   statsTasksProcessed, buffer, concurrency, oplog, stopped,
                   wdpc, wdQLen, loadsLeft, graph, fetchCalls, fetchOk, failed,
                   delivered, roots>>

\* lines 216-218
Capacity(capacity, len) == IF len < capacity THEN len ELSE capacity

\* lines 215-223: the queue is copied in the order of a map iteration, and
\* the first `capacity` hashes of the copy are the items of this call.
processQueueSlice(t) ==
    /\ At(t, "PQ_slice")
    /\ LET f == Top(t)
           n == Capacity(f.capacity, Cardinality(queue))
       IN \E items \in {S \in SUBSET queue : Cardinality(S) = n} :
             stack' = [stack EXCEPT ![t] =
                 IF items = {}
                 THEN Return(@)
                 ELSE SetTop(@, [f EXCEPT !.pc = "PQ_claim", !.capacity = 0,
                                          !.items = items, !.nItems = n])]
    /\ UNCHANGED <<queue, fetching, statsTasksRequested, statsTasksStarted,
                   statsTasksProcessed, buffer, concurrency, oplog, stopped,
                   wdpc, wdQLen, loadsLeft, graph, fetchCalls, fetchOk, failed,
                   delivered, roots>>

\* lines 225-230: the next item, in the order of a map iteration, is deleted
\* from the queue and handed to processOne.
processQueueClaim(t) ==
    /\ At(t, "PQ_claim")
    /\ LET f == Top(t) IN
       \E e \in f.items :
          /\ queue' = queue \ {e}
          /\ stack' = [stack EXCEPT ![t] =
                SetTop(@, [f EXCEPT !.pc = "PO_check", !.e = e,
                                    !.items = f.items \ {e}])]
    /\ UNCHANGED <<fetching, statsTasksRequested, statsTasksStarted,
                   statsTasksProcessed, buffer, concurrency, oplog, stopped,
                   wdpc, wdQLen, loadsLeft, graph, fetchCalls, fetchOk, failed,
                   delivered, roots>>

\* line 236, and the loop of line 225 going on or ending: processOne has
\* returned `hashes` without an error.
AfterProcessOne(f, hashes) ==
    [f EXCEPT !.pc = IF f.items = {} THEN "FL_read" ELSE "PQ_claim",
              !.e = 0,
              !.hashesList = Append(f.hashesList, hashes)]

\* ------------------------------------------------------------ processOne
\* line 151
processOneSkips(hasEntry, isFetching) == hasEntry \/ isFetching

\* lines 146-153
processOneCheck(t) ==
    /\ At(t, "PO_check")
    /\ LET f == Top(t) IN
       stack' = [stack EXCEPT ![t] =
           SetTop(@, IF processOneSkips(f.e \in oplog, f.e \in fetching)
                     THEN AfterProcessOne(f, <<>>)
                     ELSE [f EXCEPT !.pc = "PO_mark"])]
    /\ UNCHANGED <<queue, fetching, statsTasksRequested, statsTasksStarted,
                   statsTasksProcessed, buffer, concurrency, oplog, stopped,
                   wdpc, wdQLen, loadsLeft, graph, fetchCalls, fetchOk, failed,
                   delivered, roots>>

\* lines 155-157
processOneMark(t) ==
    /\ At(t, "PO_mark")
    /\ fetching' = fetching \cup {Top(t).e}
    /\ stack' = [stack EXCEPT ![t] = SetTop(@, [Top(t) EXCEPT !.pc = "PO_start"])]
    /\ UNCHANGED <<queue, statsTasksRequested, statsTasksStarted,
                   statsTasksProcessed, buffer, concurrency, oplog, stopped,
                   wdpc, wdQLen, loadsLeft, graph, fetchCalls, fetchOk, failed,
                   delivered, roots>>

\* lines 159-165: the load-added event, the started counter, and the call of
\* ipfslog.NewFromEntryHash.
processOneStart(t) ==
    /\ At(t, "PO_start")
    /\ statsTasksStarted' = statsTasksStarted + 1
    /\ fetchCalls' = [fetchCalls EXCEPT ![Top(t).e] = @ + 1]
    /\ stack' = [stack EXCEPT ![t] = SetTop(@, [Top(t) EXCEPT !.pc = "PO_fetch"])]
    /\ UNCHANGED <<queue, fetching, statsTasksRequested, statsTasksProcessed,
                   buffer, concurrency, oplog, stopped, wdpc, wdQLen, loadsLeft,
                   graph, fetchOk, failed, delivered,
                   roots>>

\* lines 165-174 and 231-234: the fetch returns an error; processOne returns
\* it and processQueue returns.
processOneFetchFails(t) ==
    /\ At(t, "PO_fetch")
    /\ failed' = failed \cup {Top(t).e}
    /\ stack' = [stack EXCEPT ![t] = Return(@)]
    /\ UNCHANGED <<queue, fetching, statsTasksRequested, statsTasksStarted,
                   statsTasksProcessed, buffer, concurrency, oplog, stopped,
                   wdpc, wdQLen, loadsLeft, graph, fetchCalls, fetchOk,
                   delivered, roots>>

\* lines 165-187: the fetch returns a log, which is appended to the buffer.
processOneFetched(t) ==
    /\ At(t, "PO_fetch")
    /\ LET h == Top(t).e IN
       /\ buffer' = Append(buffer, h)
       /\ queue' = queue \ {h}
       /\ statsTasksProcessed' = statsTasksProcessed + 1
       /\ fetchOk' = [fetchOk EXCEPT ![h] = @ + 1]
    /\ stack' = [stack EXCEPT ![t] =
                    SetTop(@, [Top(t) EXCEPT !.pc = "PO_progress"])]
    /\ UNCHANGED <<fetching, statsTasksRequested, statsTasksStarted,
                   concurrency, oplog, stopped, wdpc, wdQLen, loadsLeft, graph,
                   fetchCalls, failed, delivered,
                   roots>>

\* lines 189-205: the buffer is read for the load-progress event, and the
\* next pointers of the fetched entry are returned.
processOneProgress(t) ==
    /\ At(t, "PO_progress")
    /\ LET f == Top(t) IN
       stack' = [stack EXCEPT ![t] = SetTop(@, AfterProcessOne(f, graph[f.e]))]
    /\ UNCHANGED <<queue, fetching, statsTasksRequested, statsTasksStarted,
                   statsTasksProcessed, buffer, concurrency, oplog, stopped,
                   wdpc, wdQLen, loadsLeft, graph, fetchCalls, fetchOk, failed,
                   delivered, roots>>

\* ------------------------------------------- processQueue: flush and recurse
\* line 244. tasksRunning() is called only when len(items) = 0; the loop of
\* line 239 runs only after the loop of line 225 ran, so it never is.
FlushCond(nItems, bLen, running) ==
    (nItems > 0 /\ bLen > 0) \/ (running = 0 /\ bLen > 0)

\* lines 254-257 and the loop of line 239 going on or ending: Load is called
\* with the head of hashesList when it holds hashes.
AfterFlush(s, f) ==
    LET hashes == Head(f.hashesList)
        g == [f EXCEPT !.pc = "FL_read", !.b = <<>>,
                       !.hashesList = Tail(f.hashesList)]
    IN IF Len(hashes) > 0 THEN Append(SetTop(s, g), LoadFrame(hashes))
       ELSE IF g.hashesList = <<>> THEN Return(s)
       ELSE SetTop(s, g)

\* lines 240-244, and 254-257 when nothing is flushed
processQueueReadBuffer(t) ==
    /\ At(t, "FL_read")
    /\ LET f == Top(t) IN
       stack' = [stack EXCEPT ![t] =
           IF FlushCond(f.nItems, Len(buffer), tasksRunning)
           THEN SetTop(@, [f EXCEPT !.pc = "FL_clear", !.b = buffer])
           ELSE AfterFlush(@, f)]
    /\ UNCHANGED <<queue, fetching, statsTasksRequested, statsTasksStarted,
                   statsTasksProcessed, buffer, concurrency, oplog, stopped,
                   wdpc, wdQLen, loadsLeft, graph, fetchCalls, fetchOk, failed,
                   delivered, roots>>

\* lines 245-257: the buffer is cleared and the load-end event carries b.
processQueueFlush(t) ==
    /\ At(t, "FL_clear")
    /\ buffer' = <<>>
    /\ delivered' = delivered \cup SeqToSet(Top(t).b)
    /\ stack' = [stack EXCEPT ![t] = AfterFlush(@, Top(t))]
    /\ UNCHANGED <<queue, fetching, statsTasksRequested, statsTasksStarted,
                   statsTasksProcessed, concurrency, oplog, stopped, wdpc,
                   wdQLen, loadsLeft, graph, fetchCalls, fetchOk, failed,
                   roots>>

\* -------------------------------------------------------------- watchdog
\* lines 93-97: the timer fires before the context is done; qLen is read.
WatchdogWake ==
    /\ wdpc = "wait"
    /\ stack[W] = <<>>
    /\ ~stopped
    /\ wdpc' = "check"
    /\ wdQLen' = Cardinality(queue)
    /\ UNCHANGED <<queue, fetching, statsTasksRequested, statsTasksStarted,
                   statsTasksProcessed, buffer, concurrency, oplog, stopped,
                   stack, loadsLeft, graph, fetchCalls, fetchOk, failed,
                   delivered, roots>>

\* The check of line 99 without its test of tasksRunning().
WatchdogCondAnyRunning(running, qLen) == qLen > 0

\* line 99
WatchdogCond(running, qLen) == running = 0 /\ qLen > 0

\* lines 99-102
WatchdogCheck ==
    /\ wdpc = "check"
    /\ wdpc' = "wait"
    /\ wdQLen' = 0
    /\ stack' = [stack EXCEPT ![W] =
                    IF WatchdogCond(tasksRunning, wdQLen)
                    THEN <<ProcessQueueFrame>> ELSE <<>>]
    /\ UNCHANGED <<queue, fetching, statsTasksRequested, statsTasksStarted,
                   statsTasksProcessed, buffer, concurrency, oplog, stopped,
                   loadsLeft, graph, fetchCalls, fetchOk, failed, delivered,
                   roots>>

\* lines 103-104: the context is done when the goroutine waits.
WatchdogExit ==
    /\ wdpc = "wait"
    /\ stack[W] = <<>>
    /\ stopped
    /\ wdpc' = "exited"
    /\ UNCHANGED <<queue, fetching, statsTasksRequested, statsTasksStarted,
                   statsTasksProcessed, buffer, concurrency, oplog, stopped,
                   stack, wdQLen, loadsLeft, graph, fetchCalls, fetchOk,
                   failed, delivered,
                   roots>>

\* lines 41-43
Stop ==
    /\ ~stopped
    /\ stopped' = TRUE
    /\ UNCHANGED <<queue, fetching, statsTasksRequested, statsTasksStarted,
                   statsTasksProcessed, buffer, concurrency, oplog, stack,
                   wdpc, wdQLen, loadsLeft, graph, fetchCalls, fetchOk, failed,
                   delivered, roots>>

\* ----------------------------------------------------------------- store
\* The store joins a log it received in a load-end event into its log.
StoreJoin(h) ==
    /\ h \in delivered \ oplog
    /\ oplog' = oplog \cup {h}
    /\ UNCHANGED <<queue, fetching, statsTasksRequested, statsTasksStarted,
                   statsTasksProcessed, buffer, concurrency, stopped, stack,
                   wdpc, wdQLen, loadsLeft, graph, fetchCalls, fetchOk, failed,
                   delivered, roots>>

\* ------------------------------------------------------------------ Next
\* The steps of goroutine t inside Load, processQueue and processOne, but
\* for the fetch returning an error.
Step(t) ==
    \/ LoadInLog(t)
    \/ LoadCheck(t)
    \/ addToQueue(t)
    \/ processQueueCheck(t)
    \/ processQueueCapacity(t)
    \/ processQueueSlice(t)
    \/ processQueueClaim(t)
    \/ processOneCheck(t)
    \/ processOneMark(t)
    \/ processOneStart(t)
    \/ processOneFetched(t)
    \/ processOneProgress(t)
    \/ processQueueReadBuffer(t)
    \/ processQueueFlush(t)

Watchdog == WatchdogWake \/ WatchdogCheck \/ WatchdogExit

Environment ==
    \/ \E t \in Callers : \E cids \in LoadInputs : LoadCall(t, cids)
    \/ Stop
    \/ \E h \in Hashes : StoreJoin(h)

Next ==
    \/ \E t \in Threads : Step(t)
    \/ \E t \in Threads : processOneFetchFails(t)
    \/ Watchdog
    \/ Environment

Spec == Init /\ [][Next]_vars

\* Every fetch returns a log.
NextOk ==
    \/ \E t \in Threads : Step(t)
    \/ Watchdog
    \/ Environment

SpecOk == Init /\ [][NextOk]_vars

\* The Go scheduler runs every goroutine that can run, the timer of line 94
\* fires, and a fetch returns (a log or an error). Nothing obliges the
\* callers to call Load or Stop, nor the store to join.
Fairness ==
    /\ \A t \in Threads : WF_vars(Step(t) \/ processOneFetchFails(t))
    /\ WF_vars(Watchdog)

FairSpec == Spec /\ Fairness

\* ===================================================================
\* Properties
\* ===================================================================
Idle == \A t \in Threads : stack[t] = <<>>

\* The threads that hold h as the item they claimed at lines 225-230.
ClaimedBy(h) ==
    {t \in Threads : \E i \in 1..Len(stack[t]) : stack[t][i].e = h}

\* C1: in every reachable state the number of tasks running,
\* statsTasksStarted - statsTasksProcessed, is at most r.concurrency.
ConcurrencyBound == tasksRunning <= concurrency

\* C2: a hash is claimed by at most one processQueue call at a time, and
\* the fetch of processOne is started at most once for it.
NoDoubleFetch ==
    \A h \in Hashes :
        /\ Cardinality(ClaimedBy(h)) <= 1
        /\ fetchCalls[h] <= 1

\* C3: no hash is in the queue and in fetching at once, and no step adds to
\* the queue a hash that is present in the local log.
DedupInvariant ==
    [][\A h \in Hashes :
          /\ ~(h \in queue' /\ h \in fetching')
          /\ (h \in oplog /\ h \notin queue) => h \notin queue']_vars

\* C4: the three counters never decrease, and requested >= started >=
\* processed in every reachable state.
CounterOrdering ==
    [][/\ statsTasksRequested' >= statsTasksRequested
       /\ statsTasksStarted' >= statsTasksStarted
       /\ statsTasksProcessed' >= statsTasksProcessed
       /\ statsTasksRequested' >= statsTasksStarted'
       /\ statsTasksStarted' >= statsTasksProcessed']_vars

\* C5: started - processed is the number of hashes marked in fetching, and
\* a hash whose fetch returned a log is not marked any more.
RunningIsFetching ==
    /\ tasksRunning = Cardinality(fetching)
    /\ \A h \in Hashes :
          (fetchOk[h] > 0 /\ ClaimedBy(h) = {}) => h \notin fetching

\* The hashes reachable from the hashes of S through next pointers.
RECURSIVE Reachable(_)
Reachable(S) ==
    LET T == S \cup UNION {SeqToSet(graph[h]) : h \in S}
    IN IF T = S THEN S ELSE Reachable(T)

\* The traversal is over: no goroutine is inside Load or processQueue, the
\* queue is empty and no task is running.
Quiescent == Idle /\ queue = {} /\ tasksRunning = 0

\* C6: when every fetch succeeds and the traversal started by Load(R) is
\* over, every hash reachable from R has been fetched exactly once.
TraversalComplete ==
    (Quiescent /\ roots # {}) => \A h \in Reachable(roots) : fetchOk[h] = 1

\* C7: a failed fetch does not increment the processed counter, and while
\* the engine is not stopped the hash whose fetch failed does not stay
\* marked as fetching for ever.
FailureRecovery ==
    /\ [][\A t \in Threads :
            processOneFetchFails(t) => statsTasksProcessed' = statsTasksProcessed]_vars
    /\ \A h \in Hashes : (h \in failed) ~> (h \notin fetching \/ stopped)

\* C8: failed fetches never leave the engine with every later processQueue
\* call returning at its back-pressure check: when no goroutine is inside
\* processQueue, the number of tasks running is below the ceiling.
FailureNotFatal == Idle => ~BackPressure(tasksRunning, concurrency)

\* C9: after a fetch error left hashes in the queue, the watchdog can call
\* processQueue again: once the goroutines have returned, the condition of
\* its check holds.
WatchdogRecoversAbort ==
    (Idle /\ failed # {} /\ queue # {}) =>
        WatchdogCond(tasksRunning, Cardinality(queue))

\* C10: while the engine is not stopped, a non-empty queue with no task
\* running leads to the watchdog calling processQueue unless that state ends
\* first; and the watchdog calls processQueue only when the queue length it
\* read on waking up is positive and no task is running at its check.
Stalled == ~stopped /\ queue # {} /\ tasksRunning = 0

StallRecovery ==
    /\ Stalled ~> (stack[W] # <<>> \/ ~Stalled)
    /\ [][(stack[W] = <<>> /\ stack'[W] # <<>>) =>
            (wdQLen > 0 /\ tasksRunning = 0)]_vars

\* The watchdog has just called processQueue out of a stall: the queue is
\* not empty, no task is running, no caller is inside Load and none will
\* call it any more.
StallRecovered ==
    /\ Len(stack[W]) = 1
    /\ At(W, "PQ_check")
    /\ Stalled
    /\ \A t \in Callers : stack[t] = <<>>
    /\ loadsLeft = 0

\* C11: flushes are coalesced per batch, and once every processQueue call
\* has returned - the ones aborted by a failed fetch at line 233 included -
\* the fragments they fetched have been flushed: the buffer is empty.
FlushCoalescing == Idle => buffer = <<>>

\* C12: a processQueue call that selects no hash while the buffer is not
\* empty and no task is running clears the buffer and delivers its
\* fragments in a load-end event.
ZeroBatchFlush ==
    [][\A t \in Threads :
          (/\ processQueueSlice(t)
           /\ Capacity(Top(t).capacity, Cardinality(queue)) = 0
           /\ buffer # <<>>
           /\ tasksRunning = 0)
          => (/\ buffer' = <<>>
              /\ SeqToSet(buffer) \subseteq delivered')]_vars

\* C13: the fragments carried by a load-end event are exactly the ones its
\* flush removes from the buffer, so that no fragment is dropped by the
\* clear and none is carried by two events.
AtomicFlush ==
    [][\A t \in Threads : processQueueFlush(t) => Top(t).b = buffer]_vars

\* C14: statsTasksRequested goes up by exactly one for each hash newly
\* added to the queue, also when concurrent Loads carry the same hash, and
\* a hash that is already queued, being fetched or in the log is not added.
RaceFreeDedup ==
    [][/\ statsTasksRequested' - statsTasksRequested
            = Cardinality(queue' \ queue)
       /\ \A h \in queue' \ queue : h \notin fetching /\ h \notin oplog]_vars

\* ===================================================================
\* Scenarios
\* lines 76-110: the engine NewReplicator returns for the concurrency option
\* c, with the goroutines ts, the watchdog among them, and the entries g in
\* the network.
NewReplicator(c, g, ts) ==
    /\ queue = {}
    /\ fetching = {}
    /\ statsTasksRequested = 0
    /\ statsTasksStarted = 0
    /\ statsTasksProcessed = 0
    /\ buffer = <<>>
    /\ concurrency = IF c = 0 THEN DefaultConcurrency ELSE c
    /\ stack = [t \in ts |-> <<>>]
    /\ wdpc = "wait"
    /\ wdQLen = 0
    /\ graph = g
    /\ fetchCalls = [h \in DOMAIN g |-> 0]
    /\ fetchOk = [h \in DOMAIN g |-> 0]
    /\ failed = {}
    /\ delivered = {}
    /\ roots = {}

\* Stop() has been called on a new engine: every Load is called after it.
InitStopped ==
    /\ \E c \in 0..MaxConcurrency :
          NewReplicator(c, [h \in Hashes |-> DagNext(h)], Threads)
    /\ oplog = {}
    /\ stopped = TRUE
    /\ loadsLeft = MaxLoads

NextStopped ==
    \/ \E t \in Threads : Step(t)
    \/ \E t \in Threads : processOneFetchFails(t)
    \/ WatchdogExit
    \/ \E t \in Callers : \E cids \in LoadInputs : LoadCall(t, cids)
    \/ \E h \in Hashes : StoreJoin(h)

SpecStopped == InitStopped /\ [][NextStopped]_vars

\* C15: once Stop() has been called the watchdog does not call processQueue
\* and every Load or processQueue call made afterwards is a no-op: the
\* queue, fetching, the buffer and the counters do not change and no
\* load-end event is emitted.
StopInert ==
    [][stopped =>
          /\ stack'[W] = <<>>
          /\ UNCHANGED <<queue, fetching, buffer, statsTasksRequested,
                         statsTasksStarted, statsTasksProcessed,
                         delivered>>]_vars

\* Scenario A: h2 points to h4, and h1, h3 and h4 point to nothing.
ScenarioAGraph == <<<<>>, <<4>>, <<>>, <<>>>>

\* A new engine with concurrency 2.
InitA ==
    /\ NewReplicator(2, ScenarioAGraph, Threads)
    /\ oplog = {}
    /\ stopped = FALSE
    /\ loadsLeft = 1

\* Load([h1, h2, h3]) is called once and every fetch returns a log.
NextA ==
    \/ \E t \in Threads : Step(t)
    \/ WatchdogWake
    \/ WatchdogCheck
    \/ \E t \in Callers : LoadCall(t, <<1, 2, 3>>)

SpecA == InitA /\ [][NextA]_vars

\* C16: in scenario A, once the traversal is over (no call in progress, no
\* task running, queue empty), statsTasksProcessed is 4 and the load-end
\* events have carried the fragments of the four hashes.
ScenarioA ==
    (Quiescent /\ roots # {})
        => /\ statsTasksProcessed = 4
           /\ queue = {}
           /\ delivered = DOMAIN ScenarioAGraph

\* Scenario B: the engine is made for a store whose log is empty or holds
\* the last entry already.
InitB ==
    /\ \E c \in 0..MaxConcurrency :
          NewReplicator(c, [h \in Hashes |-> DagNext(h)], Threads)
    /\ oplog \in {{}, {NumHashes}}
    /\ stopped = FALSE
    /\ loadsLeft = MaxLoads

SpecB == InitB /\ [][Next]_vars

\* Caller t is inside a Load call whose cids were all in the log when it
\* was called, and takes this step.
KnownLoadStep(t) ==
    /\ stack[t] # <<>>
    /\ stack[t][1].known
    /\ stack'[t] # stack[t]

\* C17 as the specification has it: Load([h1]) with h1 in the local log
\* enqueues nothing, emits no event and leaves the three counters as they
\* were, from the call to its return.
ScenarioBNoOp ==
    [][\A t \in Callers :
          KnownLoadStep(t)
          => /\ queue' \subseteq queue
             /\ UNCHANGED <<statsTasksRequested, statsTasksStarted,
                            statsTasksProcessed, buffer>>]_vars

\* C17: Load([h1]) with h1 in the local log never gets to addToQueue, and
\* changes no state and emits no event up to the point where the
\* processQueue call of line 72 selects hashes that were queued before; when
\* the queue is empty that call returns having done nothing.
ScenarioB ==
    [][\A t \in Callers :
          (KnownLoadStep(t) /\ Len(stack[t]) = 1)
          => /\ Top(t).pc \in {"L_inLog", "L_check", "L_add", "PQ_check",
                               "PQ_capacity", "PQ_slice"}
                => UNCHANGED <<queue, fetching, buffer, delivered,
                               statsTasksRequested, statsTasksStarted,
                               statsTasksProcessed>>
             /\ Top(t).pc \in {"L_inLog", "L_check"}
                => stack'[t][1].pc # "L_add"
             /\ (Top(t).pc = "PQ_slice" /\ queue = {})
                => stack'[t] = <<>>]_vars

\* Load([h1]) with h1 in the log and not in fetching has passed the dedup
\* gate and is about to return from processQueue, the queue being empty.
ScenarioBSkipped ==
    \E t \in Callers :
        /\ At(t, "PQ_slice")
        /\ Top(t).known
        /\ queue = {}
        /\ roots \cap fetching = {}

\* Two callers and the watchdog, concurrency 1.
InitThree ==
    /\ NewReplicator(MaxConcurrency, [h \in Hashes |-> DagNext(h)],
                     Threads \cup {NumCallers + 1})
    /\ oplog = {}
    /\ stopped = FALSE
    /\ loadsLeft = MaxLoads

\* The callers call Load with one hash, every fetch returns a log, nobody
\* calls Stop and the store joins nothing.
NextThree ==
    \/ \E t \in Threads \cup {NumCallers + 1} : Step(t)
    \/ WatchdogWake
    \/ WatchdogCheck
    \/ \E t \in Callers \cup {NumCallers + 1} :
          \E h \in Hashes : LoadCall(t, <<h>>)

SpecThree == InitThree /\ [][NextThree]_vars

\* C18: a processQueue call made while tasksRunning() >= concurrency
\* returns without changing state; otherwise the capacity it computes at
\* line 214 is concurrency - tasksRunning() without wrapping, whatever the
\* other goroutines did since the check of line 209, and the call claims at
\* most that many hashes and at most concurrency hashes.
BackPressureBatch ==
    [][\A t \in DOMAIN stack :
          /\ (At(t, "PQ_check") /\ stack'[t] # stack[t]
                /\ tasksRunning >= concurrency)
             => /\ stack'[t] = Return(stack[t])
                /\ UNCHANGED <<queue, fetching, buffer, statsTasksRequested,
                               statsTasksStarted, statsTasksProcessed>>
          /\ (At(t, "PQ_capacity") /\ stack'[t] # stack[t])
             => /\ tasksRunning <= concurrency
                /\ stack'[t][Len(stack[t])].capacity
                      = concurrency - tasksRunning
          /\ (At(t, "PQ_slice") /\ stack'[t] # stack[t] /\ stack'[t] # <<>>
                /\ Len(stack'[t]) = Len(stack[t]))
             => /\ stack'[t][Len(stack[t])].nItems <= Top(t).capacity
                /\ stack'[t][Len(stack[t])].nItems <= concurrency]_vars

\* C19: the next pointers returned by the processOne calls of a batch are
\* all passed to Load, also when a later fetch of the batch fails: the
\* return of line 233 leaves no returned next pointer behind.
FrontierKept ==
    [][\A t \in Threads :
          processOneFetchFails(t)
          => \A i \in 1..Len(Top(t).hashesList) :
                Top(t).hashesList[i] = <<>>]_vars

\* C20: when the load-progress event of a fetched hash h is emitted, the
\* load-added event of h has been emitted, the buffer depth it reports is at
\* least 1, and no load-end event has carried the fragment of h yet.
EventOrder ==
    [][\A t \in Threads :
          processOneProgress(t)
          => LET h == Top(t).e IN
             /\ fetchCalls[h] >= 1
             /\ Len(buffer) >= 1
             /\ fetchOk[h] = 1 => h \notin delivered]_vars

====
